---- MODULE Spec2Model ----
(***************************************************************************)
(* A model of the GTI library: the credential lookup of auth_handler.py,  *)
(* the GenAI wrapper of genai/genai.py, the SDK wrappers of data/db.py    *)
(* and broker/ib.py, and the dataframe transforms of                      *)
(* analytics/data_analytics.py and analytics/plotly_plots.py.             *)
(*                                                                         *)
(* Python values are modelled as follows.  A str is a sequence of         *)
(* one-character strings where the code looks inside it (upper()), and a  *)
(* TLA+ string where it is only passed around.  None is the string        *)
(* "<None>".  An exception is a record [exc |-> <class name>].            *)
(***************************************************************************)
EXTENDS Integers, Sequences, FiniteSets, TLC

VARIABLES
    environ,          \* os.environ: variable name -> value, or Unset
    authIni,          \* the contents of auth.ini: <<section, key>> -> value, or None
    openai_api_key,   \* the module attribute openai.api_key
    genais,           \* the GenAI objects constructed so far (history: the key each read)
    authCall,         \* the last call of the auth layer and what it returned
    redshift,         \* the Redshift object: use_connection_pooling, and whether conn is closed
    rsCall,           \* the last call on the Redshift object: SDK calls issued, outcome
    ibCall,           \* the last call on the IB object: SDK calls issued, outcome
    disk,             \* the file system: the directories, and path -> contents of each file
    clock,            \* the local date datetime.now() gives: <<year, month, day>>
    saverCall,        \* the last call on the DataSaver object: arguments, outcome
    frame,            \* the contents of the caller's DataFrame object; a DataAnalytics
                      \* object built from it holds the same object as self.df
    frame0,           \* history: the contents of that object when the model starts
    tables,           \* the list of DataFrames a caller holds to be joined
    daCall            \* the last call of the analytics layer: arguments, outcome

authVars == <<environ, authIni, openai_api_key, genais, authCall>>
sdkVars == <<redshift, rsCall, ibCall, disk, clock, saverCall>>
dataVars == <<frame, frame0, tables, daCall>>
vars == <<authVars, sdkVars, dataVars>>

None == "<None>"
Unset == "<unset>"

(***************************************************************************)
(* Strings the code looks inside.                                          *)
(***************************************************************************)
LowerLetters == <<"a","b","c","d","e","f","g","h","i","j","k","l","m",
                  "n","o","p","q","r","s","t","u","v","w","x","y","z">>
UpperLetters == <<"A","B","C","D","E","F","G","H","I","J","K","L","M",
                  "N","O","P","Q","R","S","T","U","V","W","X","Y","Z">>

\* str.upper() on one character: a lower-case letter maps to its capital,
\* every other character to itself.
UpperChar(c) ==
    IF \E i \in DOMAIN LowerLetters : LowerLetters[i] = c
    THEN UpperLetters[CHOOSE i \in DOMAIN LowerLetters : LowerLetters[i] = c]
    ELSE c

\* str.upper()
upper(s) == [i \in DOMAIN s |-> UpperChar(s[i])]

\* Python's truth value of a str-or-None
Truthy(v) == v # None /\ v # ""

\* Python's `a or b`
PyOr(a, b) == IF Truthy(a) THEN a ELSE b

(***************************************************************************)
(* auth_handler.py                                                         *)
(***************************************************************************)
SecOpenAI == <<"O","p","e","n","A","I">>
SecIB == <<"I","B">>
KeyApiKey == <<"a","p","i","_","k","e","y">>

Sections == {SecOpenAI, SecIB}
Keys == {KeyApiKey}

\* f"{section.upper()}_{key.upper()}"
EnvName(section, key) == upper(section) \o <<"_">> \o upper(key)

\* the environment variables of the model: the two upper-cased names and one
\* name spelled as the section and key are written in the file
EnvNames == {EnvName(s, k) : s \in Sections, k \in Keys}
                \cup {SecOpenAI \o <<"_">> \o KeyApiKey}

EnvValues == {"", "e1"}
FileValues == {"", "f1"}

\* os.getenv(name): None when the variable is not set
getenv(name) ==
    IF name \in DOMAIN environ /\ environ[name] # Unset THEN environ[name] ELSE None

\* ConfigParser.get(section, key, fallback=None)
config_get(section, key) ==
    IF <<section, key>> \in DOMAIN authIni THEN authIni[<<section, key>>] ELSE None

\* get_config consulting the file before the environment
get_config_file_first(section, key) ==
    PyOr(config_get(section, key), getenv(EnvName(section, key)))

\* ConfigLoader.get_config(section, key)
get_config(section, key) ==
    PyOr(getenv(EnvName(section, key)), config_get(section, key))

\* OpenAIAuth().get_api_key()
OpenAIAuth_get_api_key == get_config(SecOpenAI, KeyApiKey)

MaxGenAI == 2

SdkIdle ==
    /\ redshift = [use_connection_pooling |-> TRUE, closed |-> FALSE]
    /\ rsCall = [op |-> "none"]
    /\ ibCall = [op |-> "none"]
    /\ disk = [dirs |-> {}, files |-> <<>>]
    /\ clock = <<2024, 1, 5>>
    /\ saverCall = [op |-> "none"]

DataIdle ==
    /\ frame = [iname |-> None, index |-> <<>>, columns |-> <<>>, col |-> <<>>]
    /\ frame0 = frame
    /\ tables = <<>>
    /\ daCall = [op |-> "none"]

AuthIdle ==
    /\ environ = [n \in EnvNames |-> Unset]
    /\ authIni = [x \in Sections \X Keys |-> "f1"]
    /\ openai_api_key = None
    /\ genais = <<>>
    /\ authCall = [op |-> "none"]

AuthInit ==
    /\ SdkIdle
    /\ DataIdle
    /\ environ \in [EnvNames -> EnvValues \cup {Unset}]
    /\ authIni \in [Sections \X Keys -> FileValues \cup {None}]
    /\ openai_api_key = None
    /\ genais = <<>>
    /\ authCall = [op |-> "none"]

\* os.environ[name] = v
SetEnv(name, v) ==
    /\ environ[name] # v
    /\ environ' = [environ EXCEPT ![name] = v]
    /\ authCall' = [op |-> "setenv", name |-> name]
    /\ UNCHANGED <<authIni, openai_api_key, genais, sdkVars, dataVars>>

\* del os.environ[name]
UnsetEnv(name) ==
    /\ environ[name] # Unset
    /\ environ' = [environ EXCEPT ![name] = Unset]
    /\ authCall' = [op |-> "unsetenv", name |-> name]
    /\ UNCHANGED <<authIni, openai_api_key, genais, sdkVars, dataVars>>

\* ConfigLoader().get_config(section, key)
GetConfig(section, key) ==
    /\ authCall' = [op |-> "get_config", section |-> section, key |-> key,
                    result |-> get_config(section, key)]
    /\ UNCHANGED <<environ, authIni, openai_api_key, genais, sdkVars, dataVars>>

(***************************************************************************)
(* genai/genai.py                                                          *)
(***************************************************************************)
\* GenAI(): reads the key and stores it in the module attribute openai.api_key;
\* the object itself has no field.  genais records, as history, the key the
\* constructor read.
NewGenAI ==
    /\ Len(genais) < MaxGenAI
    /\ LET key == OpenAIAuth_get_api_key IN
        /\ openai_api_key' = key
        /\ genais' = Append(genais, [key_read |-> key])
        /\ authCall' = [op |-> "GenAI", obj |-> Len(genais) + 1]
    /\ UNCHANGED <<environ, authIni, sdkVars, dataVars>>

\* genai.generate_text(prompt): openai.Completion.create authenticates with
\* the module attribute openai.api_key as it is at the time of the call.
GenerateText(i) ==
    /\ i \in DOMAIN genais
    /\ authCall' = [op |-> "generate_text", obj |-> i, key_used |-> openai_api_key]
    /\ UNCHANGED <<environ, authIni, openai_api_key, genais, sdkVars, dataVars>>

AuthNext ==
    \/ \E n \in EnvNames, v \in EnvValues : SetEnv(n, v)
    \/ \E n \in EnvNames : UnsetEnv(n)
    \/ \E s \in Sections, k \in Keys : GetConfig(s, k)
    \/ NewGenAI
    \/ \E i \in 1..MaxGenAI : GenerateText(i)

SpecAuth == AuthInit /\ [][AuthNext]_vars

(***************************************************************************)
(* C1.  get_config(section, key) returns the value of the environment     *)
(* variable <SECTION>_<KEY> whenever that variable is set, and the file's *)
(* value only when it is not set.                                          *)
(***************************************************************************)
C1_EnvOverridesFile ==
    authCall.op = "get_config" =>
        LET name == EnvName(authCall.section, authCall.key) IN
        IF environ[name] # Unset
        THEN authCall.result = environ[name]
        ELSE authCall.result = authIni[<<authCall.section, authCall.key>>]

\* C1 as it holds of the code: an environment variable set to a non-empty
\* value is returned in preference to the file's value; when the variable is
\* not set, or is set to the empty string, the file's value is returned (None
\* when the file has none).
C1_NonEmptyEnvOverridesFile ==
    authCall.op = "get_config" =>
        LET name == EnvName(authCall.section, authCall.key) IN
        IF environ[name] \notin {Unset, ""}
        THEN authCall.result = environ[name]
        ELSE authCall.result = authIni[<<authCall.section, authCall.key>>]

\* get_config was called with the variable set and a different value in the file
C1_Witness ==
    /\ authCall.op = "get_config"
    /\ environ[EnvName(authCall.section, authCall.key)] = "e1"
    /\ authIni[<<authCall.section, authCall.key>>] = "f1"
    /\ authCall.result = "e1"

(***************************************************************************)
(* C6.  generate_text on a GenAI object uses the key that object read     *)
(* when it was constructed, whatever other GenAI objects were constructed *)
(* since.                                                                  *)
(***************************************************************************)
C6_KeyOfOwnConstruction ==
    authCall.op = "generate_text" =>
        authCall.key_used = genais[authCall.obj].key_read

(***************************************************************************)
(* Tables.  pandas' DataFrame is a record                                  *)
(*   [iname   |-> the index's name (None for a RangeIndex),                *)
(*    index   |-> the index's values,                                      *)
(*    columns |-> the column names in order,                               *)
(*    col     |-> column name -> the column's values].                     *)
(* A cell is a record [k |-> kind, v |-> integer, d |-> integer]:          *)
(*   "num"  the number v/d, in lowest terms with d > 0 (floats are         *)
(*          modelled by exact rationals);                                   *)
(*   "nan", "inf" (v is the sign)  the floats NaN, +inf and -inf;          *)
(*   "date" a datetime.date, day number v;                                 *)
(*   "str"  the text of the first day of month v (month 1 is 2023-01);     *)
(*   "cat"  a text that is no date, category number v;                     *)
(*   "ts"   a Timestamp: d nanoseconds after the start of month v;         *)
(*   "nat"  pandas' NaT.                                                   *)
(***************************************************************************)
Num(n) == [k |-> "num", v |-> n, d |-> 1]
Date(day) == [k |-> "date", v |-> day, d |-> 0]
NaN == [k |-> "nan", v |-> 0, d |-> 0]
Inf(sign) == [k |-> "inf", v |-> sign, d |-> 0]
Str(m) == [k |-> "str", v |-> m, d |-> 0]
Cat(c) == [k |-> "cat", v |-> c, d |-> 0]
Ts(m, ns) == [k |-> "ts", v |-> m, d |-> ns]
NaT == [k |-> "nat", v |-> 0, d |-> 0]

Exc(name) == [exc |-> name]

SeqToSet(s) == {s[i] : i \in DOMAIN s}

\* the subsequence of s at the positions satisfying Keep
RECURSIVE SelectIdx(_, _, _)
SelectIdx(s, Keep(_), i) ==
    IF i > Len(s) THEN <<>>
    ELSE (IF Keep(i) THEN <<s[i]>> ELSE <<>>) \o SelectIdx(s, Keep, i + 1)

\* pd.DataFrame()
EmptyDataFrame == [iname |-> None, index |-> <<>>, columns |-> <<>>, col |-> <<>>]

\* pandas' RangeIndex(n): 0 .. n-1
RangeIndex(n) == [i \in 1..n |-> Num(i - 1)]

\* df[[c1, ..., cn]]: KeyError when a name is not a column
SelectColumns(df, names) ==
    IF SeqToSet(names) \subseteq SeqToSet(df.columns)
    THEN [df EXCEPT !.columns = names,
                    !.col = [c \in SeqToSet(names) |-> df.col[c]]]
    ELSE Exc("KeyError")

\* df.columns = names: ValueError on a length mismatch
RenameColumns(df, names) ==
    IF Len(names) = Len(df.columns)
    THEN [df EXCEPT !.columns = names,
                    !.col = [c \in SeqToSet(names) |->
                        df.col[df.columns[CHOOSE i \in DOMAIN names : names[i] = c]]]]
    ELSE Exc("ValueError")

\* df.set_index(name): the column becomes the index and leaves the columns;
\* KeyError when there is no such column
set_index(df, name) ==
    IF name \in SeqToSet(df.columns)
    THEN [iname |-> name,
          index |-> df.col[name],
          columns |-> SelectIdx(df.columns, LAMBDA i : df.columns[i] # name, 1),
          col |-> [c \in SeqToSet(df.columns) \ {name} |-> df.col[c]]]
    ELSE Exc("KeyError")

IsExc(x) == DOMAIN x = {"exc"}


(***************************************************************************)
(* Float arithmetic on cells, by exact rationals.                          *)
(***************************************************************************)
Abs(x) == IF x < 0 THEN -x ELSE x

RECURSIVE Gcd(_, _)
Gcd(a, b) == IF b = 0 THEN a ELSE Gcd(b, a % b)

\* the number n/d (d # 0) in lowest terms
Rat(n, d) ==
    LET g == Gcd(Abs(n), Abs(d))
        sign == IF d < 0 THEN -1 ELSE 1
    IN [k |-> "num", v |-> sign * (n \div g), d |-> sign * (d \div g)]

IsNull(c) == c.k \in {"nan", "nat"}

\* the sign of a number or an infinity
Sign(c) == IF c.v > 0 THEN 1 ELSE IF c.v < 0 THEN -1 ELSE 0

\* a + b in IEEE arithmetic
Add(a, b) ==
    IF a.k = "num" /\ b.k = "num" THEN Rat(a.v * b.d + b.v * a.d, a.d * b.d)
    ELSE IF a.k = "inf" /\ b.k = "num" THEN a
    ELSE IF a.k = "num" /\ b.k = "inf" THEN b
    ELSE IF a.k = "inf" /\ b.k = "inf" /\ a.v = b.v THEN a
    ELSE NaN

\* a * b in IEEE arithmetic
Mul(a, b) ==
    IF a.k = "num" /\ b.k = "num" THEN Rat(a.v * b.v, a.d * b.d)
    ELSE IF a.k \in {"num", "inf"} /\ b.k \in {"num", "inf"} /\ Sign(a) * Sign(b) # 0
    THEN Inf(Sign(a) * Sign(b))
    ELSE NaN

\* a / b in IEEE arithmetic: x/0 is an infinity, 0/0 and inf/inf are NaN
Div(a, b) ==
    IF a.k = "num" /\ b.k = "num"
    THEN (IF b.v # 0 THEN Rat(a.v * b.d, a.d * b.v)
          ELSE IF a.v = 0 THEN NaN ELSE Inf(Sign(a)))
    ELSE IF a.k = "num" /\ b.k = "inf" THEN Num(0)
    ELSE IF a.k = "inf" /\ b.k = "num" THEN Inf(IF b.v < 0 THEN -a.v ELSE a.v)
    ELSE NaN

\* n/d (d > 0) rounded to the nearest integer, halves to the even one
RoundHalfEven(n, d) ==
    LET q == n \div d
        r == n - q * d
    IN IF 2 * r < d THEN q
       ELSE IF 2 * r > d THEN q + 1
       ELSE IF q % 2 = 0 THEN q ELSE q + 1

\* round(decimals): scale is 10^decimals
RoundTo(c, scale) ==
    IF c.k = "num" THEN Rat(RoundHalfEven(c.v * scale, c.d), scale) ELSE c

\* round(decimals=4)
Round4(c) == RoundTo(c, 10000)

\* round(2)
Round2(c) == RoundTo(c, 100)

(***************************************************************************)
(* pandas operations on tables.                                            *)
(***************************************************************************)
\* the month in which the epoch (1970-01-01) lies, month 1 being 2023-01
EpochMonth == 1 - 53 * 12

\* pd.to_datetime accepts every cell of the series
Parseable(series) == \A i \in DOMAIN series : series[i].k \notin {"cat", "inf"}

\* pd.to_datetime on one cell: a date text is parsed, a number is taken as
\* nanoseconds since the epoch, a missing value becomes NaT
to_datetime_cell(c) ==
    CASE c.k = "str" -> Ts(c.v, 0)
      [] c.k = "num" -> Ts(EpochMonth, c.v \div c.d)
      [] c.k = "nan" -> NaT
      [] OTHER -> c

\* pd.to_datetime(series), for a series it accepts
to_datetime(series) == [i \in DOMAIN series |-> to_datetime_cell(series[i])]

\* df[name] = values: replaces the column in place, or appends a new one
AssignColumn(df, name, values) ==
    [df EXCEPT !.columns = IF name \in SeqToSet(df.columns) THEN @ ELSE Append(@, name),
               !.col = [c \in DOMAIN df.col \cup {name} |->
                            IF c = name THEN values ELSE df.col[c]]]

\* the rows of df at the positions rows, in that order
TakeRows(df, rows) ==
    [df EXCEPT !.index = [r \in DOMAIN rows |-> df.index[rows[r]]],
               !.col = [c \in DOMAIN df.col |-> [r \in DOMAIN rows |-> df.col[c][rows[r]]]]]

\* Timestamp order, NaT last
TsLess(a, b) ==
    /\ a.k = "ts"
    /\ \/ b.k # "ts"
       \/ a.v < b.v
       \/ a.v = b.v /\ a.d < b.d

\* df.sort_index(): a stable sort of the rows by the index
sort_index(df) ==
    LET n == Len(df.index)
        Before(j, i) == \/ TsLess(df.index[j], df.index[i])
                        \/ ~TsLess(df.index[i], df.index[j]) /\ j < i
        perm == [r \in 1..n |->
                    CHOOSE i \in 1..n : Cardinality({j \in 1..n : Before(j, i)}) = r - 1]
    IN TakeRows(df, perm)

\* the positions 1..n that satisfy Keep, ascending
KeptRows(n, Keep(_)) == SelectIdx([i \in 1..n |-> i], Keep, 1)

\* df.dropna(): the rows without a missing value in any column
dropna(df) ==
    TakeRows(df, KeptRows(Len(df.index),
                          LAMBDA i : \A c \in DOMAIN df.col : ~IsNull(df.col[c][i])))

\* df.drop(name, axis=1)
DropColumn(df, name) ==
    [df EXCEPT !.columns = SelectIdx(@, LAMBDA i : df.columns[i] # name, 1),
               !.col = [c \in DOMAIN df.col \ {name} |-> df.col[c]]]

\* the elements of a finite set of integers, ascending
RECURSIVE SortedSeq(_)
SortedSeq(S) ==
    IF S = {} THEN <<>>
    ELSE LET m == CHOOSE x \in S : \A y \in S : x <= y IN <<m>> \o SortedSeq(S \ {m})

\* the quarter and the year a Timestamp lies in
Quarter(ts) == (ts.v - 1) \div 3
Year(ts) == (ts.v - 1) \div 12

\* df.resample(rule).last().dropna().reset_index(): one row per period that
\* has, in every column, a value that is not missing; the row holds the last
\* such value of each column and, as column 'datetime', the period's end
ResampleLast(df, Period(_), endKind) ==
    LET n == Len(df.index)
        rowsOf(b) == {i \in 1..n : df.index[i].k = "ts" /\ Period(df.index[i]) = b}
        present(b, c) == {i \in rowsOf(b) : ~IsNull(df.col[c][i])}
        periods == {Period(df.index[i]) : i \in {j \in 1..n : df.index[j].k = "ts"}}
        kept == SortedSeq({b \in periods : \A c \in DOMAIN df.col : present(b, c) # {}})
        last(b, c) == df.col[c][CHOOSE i \in present(b, c) : \A j \in present(b, c) : j <= i]
    IN [iname |-> None,
        index |-> RangeIndex(Len(kept)),
        columns |-> <<"datetime">> \o df.columns,
        col |-> [c \in DOMAIN df.col \cup {"datetime"} |->
                    [r \in DOMAIN kept |->
                        IF c = "datetime" THEN [k |-> endKind, v |-> kept[r], d |-> 0]
                        ELSE last(kept[r], c)]]]

(***************************************************************************)
(* analytics/data_analytics.py and analytics/plotly_plots.py: the          *)
(* operations that take the caller's table.  Each returns                  *)
(*   [df |-> the caller's table after the call, raised, result].           *)
(***************************************************************************)
Outcome(df, raised, result) == [df |-> df, raised |-> raised, result |-> result]

\* a result that is the object passed in (or held), not a new table
SameObject == [alias |-> "df"]

\* DataAnalytics.__init__(df): converts the first column and makes it the
\* index, both on the caller's object, which it then keeps as self.df
DataAnalytics_init(df) ==
    IF df.columns = <<>> THEN Outcome(df, "IndexError", None)
    ELSE LET date_column == df.columns[1] IN
         IF ~Parseable(df.col[date_column]) THEN Outcome(df, "ValueError", None)
         ELSE Outcome(set_index(AssignColumn(df, date_column, to_datetime(df.col[date_column])),
                                date_column),
                      None, SameObject)

\* the sum of the cells that are not missing (pandas' Series.sum)
RECURSIVE SumCells(_, _)
SumCells(series, rows) ==
    IF rows = {} THEN Num(0)
    ELSE LET i == CHOOSE x \in rows : TRUE IN
         IF IsNull(series[i]) THEN SumCells(series, rows \ {i})
         ELSE Add(series[i], SumCells(series, rows \ {i}))

\* DataAnalytics.calculate_category_weights(df).  assignable tells whether
\* the pandas in use returns the grouped result on the frame's own index
\* (pandas 1.x); newer versions return it on a two-level index, and the
\* assignment raises TypeError.
calculate_category_weights(df, assignable) ==
    IF ~("datetime" \in SeqToSet(df.columns) \/ df.iname = "datetime")
        \/ "value" \notin SeqToSet(df.columns)
    THEN Outcome(df, "KeyError", None)
    ELSE IF ~assignable THEN Outcome(df, "TypeError", None)
    ELSE LET n == Len(df.index)
             key == IF "datetime" \in SeqToSet(df.columns) THEN df.col["datetime"]
                    ELSE df.index
             group(i) == {j \in 1..n : key[j] = key[i]}
             value == df.col["value"]
             percentage == [i \in 1..n |->
                 IF IsNull(key[i]) THEN NaN
                 ELSE Div(Mul(Num(100), value[i]), SumCells(value, group(i)))]
         IN Outcome(AssignColumn(df, "percentage", percentage), None, SameObject)

\* DataAnalytics.filter_by_quarter_and_year(df)
filter_by_quarter_and_year(df) ==
    IF df.columns = <<>> THEN Outcome(df, "IndexError", None)
    ELSE IF ~Parseable(df.col[df.columns[1]]) THEN Outcome(df, "ValueError", None)
    ELSE LET df1 == AssignColumn(df, "datetime", to_datetime(df.col[df.columns[1]]))
             df2 == set_index(df1, "datetime")
             df3 == sort_index(df2)
             q == ResampleLast(df3, Quarter, "quarter_end")
             y == ResampleLast(df3, Year, "year_end")
             quarterly == AssignColumn(q, "quarter",
                 [r \in DOMAIN q.index |-> [k |-> "quarter_text", v |-> q.col["datetime"][r].v, d |-> 0]])
             yearly == AssignColumn(y, "year",
                 [r \in DOMAIN y.index |-> [k |-> "year_text", v |-> y.col["datetime"][r].v, d |-> 0]])
         IN Outcome(df3, None, <<quarterly, yearly>>)

\* QuickPlot.prepare_figure(df, title), lines 45-51: 'date' is converted and
\* made the index on the caller's object; the figure is built from column
\* 'value' of the result
prepare_figure(df, title) ==
    IF "date" \notin SeqToSet(df.columns) THEN Outcome(df, "KeyError", None)
    ELSE IF ~Parseable(df.col["date"]) THEN Outcome(df, "ValueError", None)
    ELSE LET df1 == set_index(AssignColumn(df, "date", to_datetime(df.col["date"])), "date") IN
         IF "value" \notin SeqToSet(df1.columns) THEN Outcome(df1, "KeyError", None)
         ELSE IF df1.index = <<>> THEN Outcome(df1, "IndexError", None)
         ELSE Outcome(df1, None,
                      [figure |-> title, x |-> df1.index, y |-> df1.col["value"],
                       latest_rate |-> df1.col["value"][Len(df1.index)]])

MaxRows == 3

\* the months the dates of a caller's table are drawn from: two quarters of
\* one year and a month of the next
MonthChoices == {1, 4, 13}

\* a table as pd.DataFrame(dict) builds it
MakeFrame(n, columns, col) ==
    [iname |-> None, index |-> RangeIndex(n), columns |-> columns, col |-> col]

\* the tables a caller passes: the three layouts of the docstrings, dates as
\* text in any order, values with or without a missing one
CallerFramesOfLength(n) ==
    UNION {
        LET value == [i \in 1..n |-> IF withNaN /\ i = 1 THEN NaN ELSE Num(i)]
            dates == [i \in 1..n |-> Str(months[i])]
        IN { MakeFrame(n, <<"datetime", "category", "value">>,
                       [c \in {"datetime", "category", "value"} |->
                           CASE c = "datetime" -> dates
                             [] c = "category" -> [i \in 1..n |-> Cat(i % 2)]
                             [] OTHER -> value]),
             MakeFrame(n, <<"date", "value">>,
                       [c \in {"date", "value"} |-> IF c = "date" THEN dates ELSE value]),
             MakeFrame(n, <<"date_time", "value1", "value2">>,
                       [c \in {"date_time", "value1", "value2"} |->
                           CASE c = "date_time" -> dates
                             [] c = "value1" -> value
                             [] OTHER -> [i \in 1..n |-> Num(n + 1 - i)]]) }
        : months \in [1..n -> MonthChoices], withNaN \in BOOLEAN }

CallerFrames == UNION {CallerFramesOfLength(n) : n \in 1..MaxRows}

FramesInit ==
    /\ frame \in CallerFrames
    /\ frame0 = frame
    /\ tables = <<>>
    /\ daCall = [op |-> "none"]
    /\ AuthIdle
    /\ SdkIdle

\* a call that is handed the caller's table
FrameCall(op, r) ==
    /\ frame' = r.df
    /\ daCall' = [op |-> op, arg_before |-> frame, raised |-> r.raised, result |-> r.result]
    /\ UNCHANGED <<frame0, tables, authVars, sdkVars>>

NewDataAnalytics == FrameCall("DataAnalytics", DataAnalytics_init(frame))

CalculateCategoryWeights(assignable) ==
    FrameCall("calculate_category_weights", calculate_category_weights(frame, assignable))

FilterByQuarterAndYear ==
    FrameCall("filter_by_quarter_and_year", filter_by_quarter_and_year(frame))

PrepareFigure == FrameCall("prepare_figure", prepare_figure(frame, "title"))

FramesNext ==
    \/ NewDataAnalytics
    \/ \E assignable \in BOOLEAN : CalculateCategoryWeights(assignable)
    \/ FilterByQuarterAndYear
    \/ PrepareFigure

SpecFrames == FramesInit /\ [][FramesNext]_vars

(***************************************************************************)
(* C7.  The transforms take the table by value: DataAnalytics(df),        *)
(* calculate_category_weights(df), filter_by_quarter_and_year(df) and     *)
(* prepare_figure(df, title) leave the caller's table as it was (same     *)
(* columns, same index, same values).                                      *)
(***************************************************************************)
C7_CallerFrameUnchanged ==
    daCall.op \in {"DataAnalytics", "calculate_category_weights",
                   "filter_by_quarter_and_year", "prepare_figure"}
        => frame = daCall.arg_before

(***************************************************************************)
(* analytics/data_analytics.py: the methods of a DataAnalytics object.     *)
(* df is the table the object holds as self.df.  Each method returns       *)
(*   [df |-> self.df after the call, raised, result].                      *)
(* The statistics computed by scipy, statsmodels and pandas (corr, coint,  *)
(* linregress, describe, the rolling mean and std) are functions of the    *)
(* values they are given and are kept as terms [fn |-> name, ...] over     *)
(* exactly those values.                                                   *)
(***************************************************************************)
MaxHorizon == 3

\* the values a value column is filled from: a missing value, zero, and a
\* number whose share of a row needs no rounding in some rows and rounding in
\* others
SeriesValues == {NaN, Num(0), Num(3)}

\* `window=None`
NoWindow == 0

\* the sum of row i over the columns cols[from..], missing cells skipped
\* (DataFrame.sum(axis=1))
RECURSIVE RowSum(_, _, _, _)
RowSum(df, cols, i, from) ==
    IF from > Len(cols) THEN Num(0)
    ELSE LET c == df.col[cols[from]][i] IN
         IF IsNull(c) THEN RowSum(df, cols, i, from + 1)
         ELSE Add(c, RowSum(df, cols, i, from + 1))

\* the local table of get_pct_weights when the method returns: the columns
\* of self.df, row_sum, and one <column>_pct per column
get_pct_weights_local(df) ==
    LET n == Len(df.index)
        non_date_columns == df.columns
        df1 == AssignColumn(df, "row_sum",
                            [i \in 1..n |-> RowSum(df, non_date_columns, i, 1)])
        RECURSIVE AddPct(_, _)
        AddPct(d, j) ==
            IF j > Len(non_date_columns) THEN d
            ELSE AddPct(AssignColumn(d, non_date_columns[j] \o "_pct",
                            [i \in 1..n |-> Mul(Div(d.col[non_date_columns[j]][i],
                                                    d.col["row_sum"][i]), Num(100))]),
                        j + 1)
    IN AddPct(df1, 1)

\* df_pct.round(2) of get_pct_weights
get_pct_weights_result(df) ==
    LET local == get_pct_weights_local(df)
        names == [j \in DOMAIN df.columns |-> df.columns[j] \o "_pct"]
        df_pct == SelectColumns(local, names)
    IN [df_pct EXCEPT !.col = [c \in DOMAIN df_pct.col |->
                                   [i \in DOMAIN df_pct.col[c] |-> Round2(df_pct.col[c][i])]]]

\* get_pct_weights working on self.df itself
get_pct_weights_no_copy(df) ==
    Outcome(get_pct_weights_local(df), None, get_pct_weights_result(df))

\* DataAnalytics.get_pct_weights(): works on self.df.copy()
get_pct_weights(df) == Outcome(df, None, get_pct_weights_result(df))

\* DataAnalytics.filter_period(period): on a copy, the first column becomes
\* the index; last_non_null raises IndexError on a period that has no value
\* in some column
filter_period(df, period) ==
    IF df.columns = <<>> THEN Outcome(df, "IndexError", None)
    ELSE LET date_column == df.columns[1] IN
         IF ~Parseable(df.col[date_column]) THEN Outcome(df, "ValueError", None)
         ELSE LET df_c == set_index(AssignColumn(df, date_column,
                                                 to_datetime(df.col[date_column])),
                                    date_column)
                  P(ts) == IF period = "Q" THEN Quarter(ts) ELSE Year(ts)
                  stamps == {i \in DOMAIN df_c.index : df_c.index[i].k = "ts"}
                  periods == {P(df_c.index[i]) : i \in stamps}
                  full(b) == \A c \in DOMAIN df_c.col :
                                \E i \in stamps : P(df_c.index[i]) = b /\ ~IsNull(df_c.col[c][i])
              IN IF \E lo \in periods, hi \in periods : \E b \in lo..hi : ~full(b)
                 THEN Outcome(df, "IndexError", None)
                 ELSE LET period_data == ResampleLast(df_c, P, "period_end")
                          renamed == [period_data EXCEPT
                              !.columns = <<date_column>> \o df_c.columns,
                              !.col = [c \in DOMAIN df_c.col \cup {date_column} |->
                                          IF c = date_column THEN period_data.col["datetime"]
                                          ELSE period_data.col[c]]]
                          period_label == IF period = "Q" THEN "quarter" ELSE "year"
                      IN Outcome(df, None,
                             AssignColumn(renamed, period_label,
                                 [r \in DOMAIN renamed.index |->
                                     [k |-> "period_text", v |-> renamed.col[date_column][r].v,
                                      d |-> 0]]))

\* self.df[[col1, col2]] and the like: the columns read, or KeyError
ReadColumns(df, names, Term(_)) ==
    IF SeqToSet(names) \subseteq SeqToSet(df.columns)
    THEN Outcome(df, None, Term([j \in DOMAIN names |-> df.col[names[j]]]))
    ELSE Outcome(df, "KeyError", None)

\* a - b in IEEE arithmetic
Sub(a, b) == Add(a, Mul(Num(-1), b))

\* the cells of a series that are not missing (the statistics skip NaN)
NonNull(series) == {i \in DOMAIN series : ~IsNull(series[i])}

\* Series.mean(): NaN when every cell is missing
Mean(series) ==
    IF NonNull(series) = {} THEN NaN
    ELSE Div(SumCells(series, NonNull(series)), Num(Cardinality(NonNull(series))))

\* the sum over rows of (x[i] - mx) * (y[i] - my)
RECURSIVE SumProducts(_, _, _, _, _)
SumProducts(x, mx, y, my, rows) ==
    IF rows = {} THEN Num(0)
    ELSE LET i == CHOOSE r \in rows : TRUE IN
         Add(Mul(Sub(x[i], mx), Sub(y[i], my)), SumProducts(x, mx, y, my, rows \ {i}))

\* the sample covariance (ddof=1) of x and y over rows; NaN on fewer than
\* two rows
Cov(x, y, rows) ==
    IF Cardinality(rows) < 2 THEN NaN
    ELSE LET mx == Div(SumCells(x, rows), Num(Cardinality(rows)))
             my == Div(SumCells(y, rows), Num(Cardinality(rows)))
         IN Div(SumProducts(x, mx, y, my, rows), Num(Cardinality(rows) - 1))

\* Series.var() (ddof=1)
Var(series) == Cov(series, series, NonNull(series))

\* the integer square root of n >= 0
ISqrt(n) == CHOOSE r \in 0..n : r * r <= n /\ (r + 1) * (r + 1) > n

IsSquare(n) == ISqrt(n) * ISqrt(n) = n

\* sign * sqrt(q) for a number q >= 0: a number when q is the square of a
\* rational, else the cell [k |-> "surd", v, d] that stands for
\* sign(v) * sqrt(|v| / d)
SignedSqrt(sign, q) ==
    IF q.k # "num" THEN q
    ELSE IF q.v = 0 \/ sign = 0 THEN Num(0)
    ELSE IF IsSquare(q.v) /\ IsSquare(q.d) THEN Rat(sign * ISqrt(q.v), ISqrt(q.d))
    ELSE [k |-> "surd", v |-> sign * q.v, d |-> q.d]

\* Series.std() (ddof=1): the square root of the variance
Std(series) == SignedSqrt(1, Var(series))

\* the square of a standard deviation
Square(s) ==
    IF s.k = "surd" THEN Rat(Abs(s.v), s.d)
    ELSE IF s.k = "num" THEN Mul(s, s)
    ELSE s

\* a / sqrt(q) in IEEE arithmetic, for a number a and a variance q
DivBySqrt(a, q) ==
    IF a.k # "num" \/ q.k # "num" THEN NaN
    ELSE IF q.v = 0 THEN (IF a.v = 0 THEN NaN ELSE Inf(Sign(a)))
    ELSE SignedSqrt(Sign(a), Div(Mul(a, a), q))

\* the covariance of the two columns, not divided by the deviations
Corr_covariance(x, y) == Cov(x, y, NonNull(x) \cap NonNull(y))

\* DataFrame.corr() on two columns (Pearson, over the rows where both have a
\* value): cov / (std_x * std_y); NaN when a variance is 0 or undefined
Corr(x, y) ==
    LET rows == NonNull(x) \cap NonNull(y)
        cov == Cov(x, y, rows)
        vx == Cov(x, x, rows)
        vy == Cov(y, y, rows)
    IN DivBySqrt(cov, Mul(vx, vy))

\* DataAnalytics.correlation_coefficient(col1, col2, window): the rolling
\* correlation is kept as a term, the correlation of the whole columns is
\* computed
correlation_coefficient(df, col1, col2, window) ==
    IF window # NoWindow
    THEN ReadColumns(df, <<col1, col2>>,
                     LAMBDA x : [fn |-> "corr", window |-> window, x |-> x])
    ELSE ReadColumns(df, <<col1, col2>>, LAMBDA x : Corr(x[1], x[2]))

\* DataAnalytics.pvalue(col1, col2)
pvalue(df, col1, col2) ==
    ReadColumns(df, <<col1, col2>>, LAMBDA x : [fn |-> "coint", window |-> NoWindow, x |-> x])

\* DataAnalytics.coefficient_of_variation(col, window)
coefficient_of_variation(df, col, window) ==
    ReadColumns(df, <<col>>, LAMBDA x : [fn |-> "std/mean", window |-> window, x |-> x])

\* z_score dividing the value itself, not its distance from the mean
z_score_uncentred(df, col, value, window) ==
    ReadColumns(df, <<col>>, LAMBDA x : DivBySqrt(value, Square(Std(x[1]))))

\* DataAnalytics.z_score(col, value, window): the rolling z-scores are kept
\* as a term; without a window it is (value - mean) / std_dev
z_score(df, col, value, window) ==
    IF window # NoWindow
    THEN ReadColumns(df, <<col>>,
                     LAMBDA x : [fn |-> "(value-mean)/std", window |-> window, x |-> x,
                                 value |-> value])
    ELSE ReadColumns(df, <<col>>,
                     LAMBDA x : LET mean == Mean(x[1])
                                    std_dev == Std(x[1])
                                IN DivBySqrt(Sub(value, mean), Square(std_dev)))

\* datetime.toordinal on the index
date_ordinal(df) == [i \in DOMAIN df.index |-> [k |-> "ordinal", v |-> df.index[i].v, d |-> 0]]

\* DataAnalytics.add_slope_column(window): on a copy, the rolling regression
\* of the first column on the date ordinals
add_slope_column(df, window) ==
    LET local == AssignColumn(df, "date_ordinal", date_ordinal(df)) IN
    Outcome(df, None,
            [fn |-> "rolling_linregress_dropna", window |-> window,
             x |-> <<local.col["date_ordinal"], local.col[local.columns[1]]>>])

\* DataAnalytics.get_slope(): on a copy, the regression of the first column
\* on the date ordinals
get_slope(df) ==
    LET local == AssignColumn(df, "date_ordinal", date_ordinal(df)) IN
    Outcome(df, None,
            [fn |-> "linregress", window |-> NoWindow,
             x |-> <<local.col["date_ordinal"], local.col[local.columns[1]]>>])

\* Series.ffill(): a missing cell takes the last value before it
ffill(series) ==
    [i \in DOMAIN series |->
        LET before == {j \in 1..i : ~IsNull(series[j])} IN
        IF before = {} THEN series[i]
        ELSE series[CHOOSE j \in before : \A j2 \in before : j2 <= j]]

\* the ratio a / b, without the `- 1`
PctChange_ratio(a, b) == Div(a, b)

\* one cell of Series.pct_change: a / b - 1
PctChange(a, b) ==
    LET q == Div(a, b) IN IF q.k = "num" THEN Add(q, Num(-1)) ELSE q

\* Series.pct_change(periods, fill_method='ffill').round(decimals=4)
pct_change(series, periods) ==
    LET filled == ffill(series)
        n == Len(series)
    IN [i \in 1..n |->
            IF i - periods \in 1..n
            THEN Round4(PctChange(filled[i], filled[i - periods]))
            ELSE NaN]

\* DataAnalytics.perc_change(horizon, keep_only_perc_change)
perc_change(df, horizon, keep_only_perc_change) ==
    IF df.columns = <<>> THEN Outcome(df, "IndexError", None)
    ELSE LET periods == horizon - 1
             local == AssignColumn(df, "perc_change",
                                   pct_change(df.col[df.columns[1]], periods))
         IN IF keep_only_perc_change
            THEN Outcome(df, None, dropna(DropColumn(local, local.columns[1])))
            ELSE Outcome(df, None, dropna(local))

\* DataAnalytics.describe_df()
describe_df(df) ==
    IF df.columns = <<>> THEN Outcome(df, "IndexError", None)
    ELSE Outcome(df, None, [fn |-> "describe.round(2)", window |-> NoWindow,
                            x |-> <<df.col[df.columns[1]]>>])

\* DataAnalytics.describe_df_forecast(input_value): two columns added to the
\* table describe_df returned
describe_df_forecast(df, input_value) ==
    LET describe == describe_df(df) IN
    IF describe.raised # None THEN describe
    ELSE Outcome(df, None, [fn |-> "forecast", window |-> NoWindow,
                            x |-> describe.result.x, value |-> input_value])

\* the tables a DataAnalytics object is built from: monthly dates, a first
\* value column of any values (missing ones included), and possibly a second
\* (with a missing first value, or holding the values of the first)
AnalyticsInputsOfLength(n) ==
    { MakeFrame(n,
                IF second = "none" THEN <<"date_time", "value1">>
                ELSE <<"date_time", "value1", "value2">>,
                [c \in {"date_time", "value1"} \cup
                       (IF second = "none" THEN {} ELSE {"value2"}) |->
                    CASE c = "date_time" -> [i \in 1..n |-> Str(i)]
                      [] c = "value1" -> value1
                      [] second = "same" -> value1
                      [] OTHER -> [i \in 1..n |->
                                      IF second = "nan_first" /\ i = 1 THEN NaN ELSE Num(i)]])
      : value1 \in [1..n -> SeriesValues],
        second \in {"none", "nan_first", "same"} }

AnalyticsInputs == UNION {AnalyticsInputsOfLength(n) : n \in 1..MaxRows}

\* the state after `DataAnalytics(df)`: frame is self.df
AnalyticsInit ==
    /\ frame \in {DataAnalytics_init(f).df : f \in AnalyticsInputs}
    /\ frame0 = frame
    /\ tables = <<>>
    /\ daCall = [op |-> "none"]
    /\ AuthIdle
    /\ SdkIdle

\* what method op does with arguments args on an object holding df
MethodOutcome(op, args, df) ==
    CASE op = "get_pct_weights" -> get_pct_weights(df)
      [] op = "filter_period" -> filter_period(df, args[1])
      [] op = "correlation_coefficient" -> correlation_coefficient(df, args[1], args[2], args[3])
      [] op = "pvalue" -> pvalue(df, args[1], args[2])
      [] op = "coefficient_of_variation" -> coefficient_of_variation(df, args[1], args[2])
      [] op = "z_score" -> z_score(df, args[1], args[2], args[3])
      [] op = "add_slope_column" -> add_slope_column(df, args[1])
      [] op = "get_slope" -> get_slope(df)
      [] op = "perc_change" -> perc_change(df, args[1], args[2])
      [] op = "describe_df" -> describe_df(df)
      [] op = "describe_df_forecast" -> describe_df_forecast(df, args[1])

\* a method call on the object, r being what the method does
MethodCall(op, args, r) ==
    /\ frame' = r.df
    /\ daCall' = [op |-> op, args |-> args, raised |-> r.raised, result |-> r.result]
    /\ UNCHANGED <<frame0, tables, authVars, sdkVars>>

ColumnNames == {"value1", "value2"}
Windows == {NoWindow, 2}

\* the values z_score is asked about: fixed numbers, and the mean of the
\* column as `df[col].mean()` gives it
ZValues(col) ==
    (SeriesValues \ {NaN})
        \cup (IF col \in DOMAIN frame.col /\ Mean(frame.col[col]).k = "num"
              THEN {Mean(frame.col[col])} ELSE {})

GetPctWeights == MethodCall("get_pct_weights", <<>>, get_pct_weights(frame))

FilterPeriod(period) == MethodCall("filter_period", <<period>>, filter_period(frame, period))

CorrelationCoefficient(col1, col2, window) ==
    MethodCall("correlation_coefficient", <<col1, col2, window>>,
               correlation_coefficient(frame, col1, col2, window))

PValue(col1, col2) == MethodCall("pvalue", <<col1, col2>>, pvalue(frame, col1, col2))

CoefficientOfVariation(col, window) ==
    MethodCall("coefficient_of_variation", <<col, window>>,
               coefficient_of_variation(frame, col, window))

ZScore(col, value, window) ==
    MethodCall("z_score", <<col, value, window>>, z_score(frame, col, value, window))

AddSlopeColumn(window) ==
    MethodCall("add_slope_column", <<window>>, add_slope_column(frame, window))

GetSlope == MethodCall("get_slope", <<>>, get_slope(frame))

PercChange(horizon, keep) ==
    MethodCall("perc_change", <<horizon, keep>>, perc_change(frame, horizon, keep))

DescribeDf == MethodCall("describe_df", <<>>, describe_df(frame))

DescribeDfForecast(input_value) ==
    MethodCall("describe_df_forecast", <<input_value>>, describe_df_forecast(frame, input_value))

AnalyticsNext ==
    \/ GetPctWeights
    \/ \E period \in {"Q", "A"} : FilterPeriod(period)
    \/ \E c1 \in ColumnNames, c2 \in ColumnNames, w \in Windows : CorrelationCoefficient(c1, c2, w)
    \/ \E c1 \in ColumnNames, c2 \in ColumnNames : PValue(c1, c2)
    \/ \E c \in ColumnNames, w \in Windows : CoefficientOfVariation(c, w)
    \/ \E c \in ColumnNames, w \in Windows : \E v \in ZValues(c) : ZScore(c, v, w)
    \/ \E w \in Windows \ {NoWindow} : AddSlopeColumn(w)
    \/ GetSlope
    \/ \E h \in 1..MaxHorizon, keep \in BOOLEAN : PercChange(h, keep)
    \/ DescribeDf
    \/ \E v \in {Num(100)} : DescribeDfForecast(v)

SpecAnalytics == AnalyticsInit /\ [][AnalyticsNext]_vars

(***************************************************************************)
(* C8.  No method of a DataAnalytics object changes the table the object  *)
(* holds: after any sequence of method calls the table is the one the     *)
(* object was built with, and the last call returned (or raised) what the *)
(* same call returns as the first call on a freshly built object.         *)
(***************************************************************************)
C8_MethodsDoNotInteract ==
    /\ frame = frame0
    /\ daCall.op # "none" =>
        LET fresh == MethodOutcome(daCall.op, daCall.args, frame0) IN
        /\ daCall.raised = fresh.raised
        /\ daCall.raised = None => daCall.result = fresh.result

\* get_pct_weights has returned its table of percentages
C8_Witness ==
    /\ daCall.op = "get_pct_weights"
    /\ daCall.raised = None
    /\ Len(frame.index) = 2
    /\ daCall.result.columns = <<"value1_pct", "value2_pct">>
    /\ daCall.result.col["value1_pct"] = <<NaN, Num(60)>>
    /\ daCall.result.col["value2_pct"] = <<NaN, Num(40)>>

\* the first value column has no missing value and no zero
CleanSeries(series) == \A i \in DOMAIN series : series[i].k = "num" /\ series[i].v # 0

(***************************************************************************)
(* C9.  perc_change(horizon) reports, for each row, the change of the     *)
(* first value column relative to its value `horizon` rows earlier, and   *)
(* drops exactly the leading rows that have no value `horizon` rows       *)
(* earlier.  (Stated for tables without missing values and zeros, where   *)
(* no other row can be dropped.)                                           *)
(***************************************************************************)
C9_ChangeOverHorizonPeriods ==
    /\ daCall.op = "perc_change"
    /\ \A c \in DOMAIN frame0.col : CleanSeries(frame0.col[c])
    => LET h == daCall.args[1]
           n == Len(frame0.index)
           x == frame0.col[frame0.columns[1]]
           kept == IF n > h THEN n - h ELSE 0
       IN /\ daCall.raised = None
          /\ daCall.result.index = [r \in 1..kept |-> frame0.index[r + h]]
          /\ daCall.result.col["perc_change"] =
                [r \in 1..kept |-> Round4(Add(Div(x[r + h], x[r]), Num(-1)))]

\* the first value column holds the same number in every row
ConstantSeries(series) ==
    /\ series # <<>>
    /\ series[1].k = "num"
    /\ \A i \in DOMAIN series : series[i] = series[1]

(***************************************************************************)
(* C10.  The percentage change of a constant series is 0: for every       *)
(* horizon >= 1, every row perc_change returns for a constant first value *)
(* column has perc_change 0.                                               *)
(***************************************************************************)
C10_ConstantSeriesChangeIsZero ==
    /\ daCall.op = "perc_change"
    /\ ConstantSeries(frame0.col[frame0.columns[1]])
    => /\ daCall.raised = None
       /\ \A r \in DOMAIN daCall.result.index : daCall.result.col["perc_change"][r] = Num(0)

\* perc_change over two rows has returned rows for a constant series
C10_Witness ==
    /\ daCall.op = "perc_change"
    /\ daCall.args[1] = 2
    /\ ConstantSeries(frame0.col[frame0.columns[1]])
    /\ Len(daCall.result.index) = 2
    /\ \A r \in DOMAIN daCall.result.index : daCall.result.col["perc_change"][r] = Num(0)

\* the column has at least two values and they are not all equal
HasSpread(series) == Var(series).k = "num" /\ Var(series).v # 0

\* z_score was called without a window on an existing column, with the mean
\* of that column as value
ZScoreOfMean ==
    /\ daCall.op = "z_score"
    /\ daCall.args[3] = NoWindow
    /\ daCall.args[1] \in DOMAIN frame0.col
    /\ daCall.args[2] = Mean(frame0.col[daCall.args[1]])

CorrelationOfIdentical ==
    /\ daCall.op = "correlation_coefficient"
    /\ daCall.args[3] = NoWindow
    /\ {daCall.args[1], daCall.args[2]} \subseteq DOMAIN frame0.col
    /\ frame0.col[daCall.args[1]] = frame0.col[daCall.args[2]]

(***************************************************************************)
(* C12.  The correlation coefficient of two identical series is 1: when    *)
(* col1 and col2 hold the same values row by row,                          *)
(* correlation_coefficient(col1, col2) without a window returns 1.         *)
(***************************************************************************)
C12_CorrelationOfIdenticalIsOne ==
    CorrelationOfIdentical => daCall.raised = None /\ daCall.result = Num(1)

\* C12 as it holds of the code: the coefficient is 1 when the series has at
\* least two values that are not all equal, and NaN for every other series.
C12_CorrelationOfIdenticalIsOneOrNaN ==
    CorrelationOfIdentical =>
        /\ daCall.raised = None
        /\ daCall.result = IF HasSpread(frame0.col[daCall.args[1]]) THEN Num(1) ELSE NaN

\* two different columns holding 0, 3 were found to correlate with coefficient 1
C12_Witness ==
    /\ CorrelationOfIdentical
    /\ daCall.args[1] = "value1"
    /\ daCall.args[2] = "value2"
    /\ frame0.col["value1"] = <<Num(0), Num(3)>>
    /\ daCall.result = Num(1)

(***************************************************************************)
(* broker/ib.py                                                            *)
(***************************************************************************)
MaxBars == 2
MaxPrice == 2

\* the fields of ib_insync's BarData, in order
BarDataFields == <<"date", "open", "high", "low", "close", "volume", "average", "barCount">>

\* n daily bars around price p, as the SDK returns them
Bars(n, p) ==
    [i \in 1..n |->
        [date |-> Date(i), open |-> Num(p), high |-> Num(p + 1), low |-> Num(p - 1),
         close |-> Num(p + i - 1), volume |-> Num(p * i), average |-> Num(p),
         barCount |-> Num(i)]]

\* what ib.reqHistoricalData does: raises, or returns a (possibly empty) list
\* of bars.  The errors are subclasses of Exception.
IbErrors == {"ConnectionError", "TimeoutError"}
IbResponses ==
    {[raises |-> e, bars |-> <<>>] : e \in IbErrors}
        \cup {[raises |-> None, bars |-> Bars(n, p)] : n \in 0..MaxBars, p \in 1..MaxPrice}

\* Python's None where a table is expected
NoneObject == [nonetype |-> TRUE]
IsNoneObject(x) == DOMAIN x = {"nonetype"}

\* ib_insync util.df(objs): None for an empty list, else one column per field
util_df(bars) ==
    IF bars = <<>> THEN NoneObject
    ELSE [iname |-> None,
          index |-> RangeIndex(Len(bars)),
          columns |-> BarDataFields,
          col |-> [f \in SeqToSet(BarDataFields) |-> [i \in DOMAIN bars |-> bars[i][f]]]]

\* the body of the try block of get_historical_data: a table, or the exception
\* raised inside it
get_historical_data_try(resp) ==
    IF resp.raises # None THEN Exc(resp.raises)
    ELSE LET df0 == util_df(resp.bars) IN
         IF IsNoneObject(df0) THEN Exc("TypeError")
         ELSE LET df1 == SelectColumns(df0, <<"date", "open", "high", "low", "close", "volume">>) IN
              IF IsExc(df1) THEN df1
              ELSE LET df2 == RenameColumns(df1, <<"Date", "Open", "High", "Low", "Close", "Volume">>) IN
                   IF IsExc(df2) THEN df2 ELSE set_index(df2, "Date")

\* get_historical_data without its except clause
get_historical_data_no_except(resp) ==
    LET body == get_historical_data_try(resp) IN
    [trace |-> <<"reqHistoricalData">>,
     caught |-> None,
     raised |-> IF IsExc(body) THEN body.exc ELSE None,
     result |-> IF IsExc(body) THEN NoneObject ELSE body]

\* IB.get_historical_data: `except Exception` prints the error and returns
\* an empty table
get_historical_data(resp) ==
    LET body == get_historical_data_try(resp) IN
    [trace |-> <<"reqHistoricalData">>,
     caught |-> IF IsExc(body) THEN body.exc ELSE None,
     raised |-> None,
     result |-> IF IsExc(body) THEN EmptyDataFrame ELSE body]

GetHistoricalData(resp) ==
    /\ ibCall' = [op |-> "get_historical_data", resp |-> resp] @@ get_historical_data(resp)
    /\ UNCHANGED <<authVars, redshift, rsCall, disk, clock, saverCall, dataVars>>

(***************************************************************************)
(* data/db.py: Redshift                                                    *)
(***************************************************************************)
Queries == {"SELECT", "INSERT"}

\* psycopg2: cursor.description is None after a statement that returns no rows
ReturnsRows(query) == query = "SELECT"

\* what the SDK does in one call: each of execute, fetchall and commit either
\* succeeds ("ok") or raises the named error
SdkErrors == {"OperationalError", "ProgrammingError"}
SdkOutcomes ==
    [execute : {"ok"} \cup SdkErrors, fetchall : {"ok"} \cup SdkErrors,
     commit : {"ok"} \cup SdkErrors]

\* the call ends by raising exception e from step `at`
Raises(closed, trace, e) ==
    [closed |-> closed, trace |-> trace, raised |-> e, failed_at |-> trace[Len(trace)],
     committed |-> FALSE, result |-> None]

\* the connection closed whatever use_connection_pooling says
CloseAlways(rs, trace) == [closed |-> TRUE, trace |-> Append(trace, "conn.close")]

\* the tail both methods share: `if not self.use_connection_pooling: self.conn.close()`
CloseUnlessPooling(rs, trace) ==
    IF ~rs.use_connection_pooling
    THEN [closed |-> TRUE, trace |-> Append(trace, "conn.close")]
    ELSE [closed |-> rs.closed, trace |-> trace]

\* Redshift.run_query(query); psycopg2's conn.cursor() raises InterfaceError
\* on a closed connection
run_query(rs, query, sdk) ==
    IF rs.closed THEN Raises(rs.closed, <<"conn.cursor">>, "InterfaceError")
    ELSE IF sdk.execute # "ok"
    THEN Raises(rs.closed, <<"conn.cursor", "cursor.execute">>, sdk.execute)
    ELSE IF ~ReturnsRows(query)
    THEN Raises(rs.closed, <<"conn.cursor", "cursor.execute", "cursor.description">>,
                "TypeError")
    ELSE IF sdk.fetchall # "ok"
    THEN Raises(rs.closed,
                <<"conn.cursor", "cursor.execute", "cursor.description", "cursor.fetchall">>,
                sdk.fetchall)
    ELSE LET end == CloseUnlessPooling(rs,
                        <<"conn.cursor", "cursor.execute", "cursor.description",
                          "cursor.fetchall", "cursor.close">>) IN
         [closed |-> end.closed, trace |-> end.trace, raised |-> None, failed_at |-> None,
          committed |-> FALSE, result |-> "DataFrame"]

\* write_query committing before it executes the statement
write_query_commit_first(rs, query, sdk) ==
    IF rs.closed THEN Raises(rs.closed, <<"conn.cursor">>, "InterfaceError")
    ELSE IF sdk.commit # "ok"
    THEN Raises(rs.closed, <<"conn.cursor", "conn.commit">>, sdk.commit)
    ELSE IF sdk.execute # "ok"
    THEN [Raises(rs.closed, <<"conn.cursor", "conn.commit", "cursor.execute">>, sdk.execute)
            EXCEPT !.committed = TRUE]
    ELSE LET end == CloseUnlessPooling(rs,
                        <<"conn.cursor", "conn.commit", "cursor.execute", "cursor.close">>) IN
         [closed |-> end.closed, trace |-> end.trace, raised |-> None, failed_at |-> None,
          committed |-> TRUE, result |-> None]

\* Redshift.write_query(query)
write_query(rs, query, sdk) ==
    IF rs.closed THEN Raises(rs.closed, <<"conn.cursor">>, "InterfaceError")
    ELSE IF sdk.execute # "ok"
    THEN Raises(rs.closed, <<"conn.cursor", "cursor.execute">>, sdk.execute)
    ELSE IF sdk.commit # "ok"
    THEN Raises(rs.closed, <<"conn.cursor", "cursor.execute", "conn.commit">>, sdk.commit)
    ELSE LET end == CloseUnlessPooling(rs,
                        <<"conn.cursor", "cursor.execute", "conn.commit", "cursor.close">>) IN
         [closed |-> end.closed, trace |-> end.trace, raised |-> None, failed_at |-> None,
          committed |-> TRUE, result |-> None]

\* Redshift.read_query(query): `return self.run_query(query)`
read_query(rs, query, sdk) == run_query(rs, query, sdk)

RedshiftCall(op, r, query, sdk) ==
    /\ redshift' = [redshift EXCEPT !.closed = r.closed]
    /\ rsCall' = [op |-> op, query |-> query, sdk |-> sdk, closed_before |-> redshift.closed,
                  closed_after |-> r.closed, trace |-> r.trace, raised |-> r.raised,
                  failed_at |-> r.failed_at, committed |-> r.committed, result |-> r.result]
    /\ UNCHANGED <<authVars, ibCall, disk, clock, saverCall, dataVars>>

RunQuery(query, sdk) == RedshiftCall("run_query", run_query(redshift, query, sdk), query, sdk)

ReadQuery(query, sdk) == RedshiftCall("read_query", read_query(redshift, query, sdk), query, sdk)

WriteQuery(query, sdk) ==
    RedshiftCall("write_query", write_query(redshift, query, sdk), query, sdk)

\* Redshift(use_connection_pooling): psycopg2.connect has returned an open connection
SdkInit ==
    /\ redshift \in [use_connection_pooling : BOOLEAN, closed : {FALSE}]
    /\ rsCall = [op |-> "none"]
    /\ ibCall = [op |-> "none"]
    /\ disk = [dirs |-> {}, files |-> <<>>]
    /\ clock = <<2024, 1, 5>>
    /\ saverCall = [op |-> "none"]
    /\ AuthIdle
    /\ DataIdle

SdkNext ==
    \/ \E q \in Queries, sdk \in SdkOutcomes : RunQuery(q, sdk)
    \/ \E q \in Queries, sdk \in SdkOutcomes : ReadQuery(q, sdk)
    \/ \E q \in Queries, sdk \in SdkOutcomes : WriteQuery(q, sdk)
    \/ \E resp \in IbResponses : GetHistoricalData(resp)

SpecSdk == SdkInit /\ [][SdkNext]_vars

\* the number of occurrences of x in the sequence s
Count(s, x) == Cardinality({i \in DOMAIN s : s[i] = x})

(***************************************************************************)
(* C2.  get_historical_data never raises.  When the request fails, or the *)
(* bars cannot be converted (no bars came back), it returns an empty      *)
(* table; otherwise the table is indexed by Date and its columns are      *)
(* exactly Open, High, Low, Close, Volume.                                 *)
(***************************************************************************)
C2_NeverRaises ==
    ibCall.op = "get_historical_data" =>
        /\ ibCall.raised = None
        /\ IF ibCall.resp.raises # None \/ ibCall.resp.bars = <<>>
           THEN ibCall.result = EmptyDataFrame
           ELSE /\ ibCall.result.iname = "Date"
                /\ ibCall.result.columns = <<"Open", "High", "Low", "Close", "Volume">>
                /\ DOMAIN ibCall.result.col = {"Open", "High", "Low", "Close", "Volume"}
                /\ ibCall.result.index = [i \in DOMAIN ibCall.resp.bars |-> ibCall.resp.bars[i].date]
                /\ \A i \in DOMAIN ibCall.resp.bars :
                        /\ ibCall.result.col["Open"][i] = ibCall.resp.bars[i].open
                        /\ ibCall.result.col["Close"][i] = ibCall.resp.bars[i].close
                        /\ ibCall.result.col["Volume"][i] = ibCall.resp.bars[i].volume

\* a failed request was swallowed
C2_Witness ==
    /\ ibCall.op = "get_historical_data"
    /\ ibCall.resp.raises = "ConnectionError"
    /\ ibCall.caught = "ConnectionError"
    /\ ibCall.raised = None
    /\ ibCall.result = EmptyDataFrame

(***************************************************************************)
(* C3.  The connection of a Redshift object stays open for as long as the *)
(* object lives: after any sequence of queries it is open.                 *)
(***************************************************************************)
C3_ConnectionStaysOpen == ~redshift.closed

C5_ExactlyOneRequest ==
    /\ rsCall.op \in {"run_query", "write_query"} =>
            Count(rsCall.trace, "cursor.execute") = 1
    /\ ibCall.op = "get_historical_data" =>
            Count(ibCall.trace, "reqHistoricalData") = 1

(***************************************************************************)
(* data/db.py: DataSaver.  A path is the sequence of its components       *)
(* (os.path.join of relative components appends them); the file system    *)
(* is the set of directories and the contents of each file.               *)
(***************************************************************************)
DigitChars == <<"0", "1", "2", "3", "4", "5", "6", "7", "8", "9">>

\* f"{n}" for an integer n >= 0: its decimal digits
RECURSIVE Decimal(_)
Decimal(n) ==
    IF n < 10 THEN DigitChars[n + 1]
    ELSE Decimal(n \div 10) \o DigitChars[(n % 10) + 1]

\* f"{n}" where the code writes f"{n:02d}"
Pad2_unpadded(n) == Decimal(n)

\* f"{n:02d}": at least two digits, zero-padded on the left
Pad2(n) == IF n < 10 THEN "0" \o Decimal(n) ELSE Decimal(n)

\* the dates datetime.now() is drawn from: one-digit and two-digit months
\* and days
Dates == {<<2024, 1, 5>>, <<2024, 11, 23>>, <<2025, 10, 9>>}

\* DataSaver(): base_dir="data"
base_dir == "data"

DfNames == {"prices", "orders"}
Dfs == {"df1", "df2"}
FileFormats == {"parquet", "csv", "json"}

\* the dicts passed as `dataframes`: the entries in insertion order, no name
\* twice
DataframeDicts ==
    {<<>>}
        \cup {<<[name |-> n, df |-> d]>> : n \in DfNames, d \in Dfs}
        \cup {x \in {<<[name |-> n1, df |-> d1], [name |-> n2, df |-> d2]>> :
                        n1 \in DfNames, n2 \in DfNames, d1 \in Dfs, d2 \in Dfs} :
                    x[1].name # x[2].name}

\* whether pandas finds what it needs to write (a parquet engine, a writable
\* file); when it does not, the writer raises
WriterOutcomes == {"ok", "ImportError"}

\* os.makedirs(path, exist_ok=True): the directory and every missing
\* ancestor are created; an existing directory is no error
makedirs(d, path) ==
    [d EXCEPT !.dirs = @ \cup {SubSeq(path, 1, i) : i \in 1..Len(path)}]

\* df.to_parquet(path) / df.to_csv(path, index=False): the file is created
\* or replaced
WriteFile(d, path, contents) ==
    [d EXCEPT !.files = [q \in DOMAIN d.files \cup {path} |->
                            IF q = path THEN contents ELSE d.files[q]]]

\* the loop of save_data from entry i on: [disk, raised]
RECURSIVE SaveEntries(_, _, _, _, _, _)
SaveEntries(d, dir_path, dataframes, file_format, writer, i) ==
    IF i > Len(dataframes) THEN [disk |-> d, raised |-> None]
    ELSE LET df_name == dataframes[i].name
             file_path == dir_path \o <<df_name \o "." \o file_format>>
         IN IF file_format \notin {"parquet", "csv"}
            THEN [disk |-> d, raised |-> "ValueError"]
            ELSE IF writer # "ok" THEN [disk |-> d, raised |-> writer]
            ELSE SaveEntries(
                    WriteFile(d, file_path,
                              [df |-> dataframes[i].df, format |-> file_format,
                               index |-> file_format = "parquet"]),
                    dir_path, dataframes, file_format, writer, i + 1)

\* DataSaver.save_data(dataframes, file_format) at date today
save_data(d, today, dataframes, file_format, writer) ==
    LET year == today[1]
        month == today[2]
        day == today[3]
        dir_path == <<base_dir, Decimal(year), Pad2(month), Pad2(day)>>
    IN SaveEntries(makedirs(d, dir_path), dir_path, dataframes, file_format, writer, 1)

SaveData(dataframes, file_format, writer) ==
    LET r == save_data(disk, clock, dataframes, file_format, writer) IN
    /\ disk' = r.disk
    /\ saverCall' = [op |-> "save_data", dataframes |-> dataframes,
                     file_format |-> file_format, writer |-> writer,
                     disk_before |-> disk, raised |-> r.raised]
    /\ UNCHANGED <<authVars, redshift, rsCall, ibCall, clock, dataVars>>

\* DataSaver() on an empty disk, on some day
SaverInit ==
    /\ disk = [dirs |-> {}, files |-> <<>>]
    /\ clock \in Dates
    /\ saverCall = [op |-> "none"]
    /\ redshift = [use_connection_pooling |-> TRUE, closed |-> FALSE]
    /\ rsCall = [op |-> "none"]
    /\ ibCall = [op |-> "none"]
    /\ AuthIdle
    /\ DataIdle

SaverNext ==
    \E dataframes \in DataframeDicts, file_format \in FileFormats, writer \in WriterOutcomes :
        SaveData(dataframes, file_format, writer)

SpecSaver == SaverInit /\ [][SaverNext]_vars

\* the dated directory of each date, written out
DatedDir ==
    CASE clock = <<2024, 1, 5>> -> <<"data", "2024", "01", "05">>
      [] clock = <<2024, 11, 23>> -> <<"data", "2024", "11", "23">>
      [] clock = <<2025, 10, 9>> -> <<"data", "2025", "10", "09">>

\* the paths save_data is to write for the mapping of the last call
SavedPaths ==
    {DatedDir \o <<saverCall.dataframes[i].name \o "." \o saverCall.file_format>> :
        i \in DOMAIN saverCall.dataframes}

(***************************************************************************)
(* C13.  save_data(dataframes, file_format) with file_format parquet or    *)
(* csv, when the writers succeed, does not raise and leaves one file per   *)
(* entry at <base_dir>/<YYYY>/<MM>/<DD>/<name>.<file_format> (month and    *)
(* day in two digits) holding that entry's table; the dated directory      *)
(* exists afterwards whether or not it did before; every other file is     *)
(* left as it was.                                                         *)
(***************************************************************************)
C13_SavedUnderDatedDirectory ==
    /\ saverCall.op = "save_data"
    /\ saverCall.file_format \in {"parquet", "csv"}
    /\ saverCall.writer = "ok"
    => /\ saverCall.raised = None
       /\ DatedDir \in disk.dirs
       /\ DOMAIN disk.files = DOMAIN saverCall.disk_before.files \cup SavedPaths
       /\ \A i \in DOMAIN saverCall.dataframes :
            LET f == disk.files[DatedDir \o <<saverCall.dataframes[i].name \o "."
                                                \o saverCall.file_format>>]
            IN f.df = saverCall.dataframes[i].df /\ f.format = saverCall.file_format
       /\ \A q \in DOMAIN saverCall.disk_before.files \ SavedPaths :
            disk.files[q] = saverCall.disk_before.files[q]

\* a second save on the same day replaced prices.csv and left orders.csv
C13_Witness ==
    /\ saverCall.op = "save_data"
    /\ saverCall.raised = None
    /\ clock = <<2024, 1, 5>>
    /\ saverCall.dataframes = <<[name |-> "prices", df |-> "df2"]>>
    /\ saverCall.file_format = "csv"
    /\ <<"data", "2024", "01", "05">> \in saverCall.disk_before.dirs
    /\ <<"data", "2024", "01", "05", "prices.csv">> \in DOMAIN saverCall.disk_before.files
    /\ <<"data", "2024", "01", "05", "orders.csv">> \in DOMAIN disk.files
    /\ saverCall.disk_before.files[<<"data", "2024", "01", "05", "prices.csv">>].df = "df1"
    /\ disk.files[<<"data", "2024", "01", "05", "prices.csv">>].df = "df2"
    /\ disk.files[<<"data", "2024", "01", "05", "orders.csv">>].df = "df1"

(***************************************************************************)
(* analytics/plotly_plots.py: QuickPlot.__init__ and _validate_input.      *)
(* A Python value is a record [type, items, ncols]: items are the elements *)
(* of a list or a tuple, ncols the number of columns of a DataFrame.       *)
(***************************************************************************)
MaxSeries == 2

PyNone == [type |-> "NoneType", items |-> <<>>, ncols |-> 0]
PyInt == [type |-> "int", items |-> <<>>, ncols |-> 0]
PyStr(text) == [type |-> "str", items |-> <<text>>, ncols |-> 0]
PyDataFrame(ncols) == [type |-> "DataFrame", items |-> <<>>, ncols |-> ncols]
PyList(items) == [type |-> "list", items |-> items, ncols |-> 0]
PyTuple(items) == [type |-> "tuple", items |-> items, ncols |-> 0]

\* the sequences over S of length 0..n
SeqsUpTo(S, n) == UNION {[1..k -> S] : k \in 0..n}

\* what a caller passes as dataframes: lists of tables of one to three
\* columns and of things that are no table, and values that are no list
PlotItems == {PyDataFrame(1), PyDataFrame(2), PyDataFrame(3), PyStr("x")}
PlotDataframes ==
    {PyList(items) : items \in SeqsUpTo(PlotItems, MaxSeries)}
        \cup {PyNone, PyInt, PyDataFrame(2), PyTuple(<<PyDataFrame(2)>>)}

\* what a caller passes as labels: nothing, or a list of texts
PlotLabels ==
    {PyNone} \cup {PyList(items) : items \in SeqsUpTo({PyStr("a"), PyStr("b")}, MaxSeries + 1)}

\* whether Python's len() accepts the value (a DataFrame has its rows as length)
HasLen(x) == x.type \in {"list", "tuple", "str", "DataFrame"}

\* the truth value of `labels`: None and the empty list are false
PyTruthy(x) == x.type # "NoneType" /\ ~(x.type \in {"list", "tuple"} /\ x.items = <<>>)

\* [f"Series {i+1}" for i in range(n)]
DefaultLabels(n) == PyList([i \in 1..n |-> PyStr("Series " \o Decimal(i))])

\* QuickPlot._validate_input(): the exception it raises, or None
validate_input(dataframes, labels) ==
    IF dataframes.type # "list"
        \/ \E i \in DOMAIN dataframes.items : dataframes.items[i].type # "DataFrame"
    THEN "ValueError"
    ELSE IF \E i \in DOMAIN dataframes.items : dataframes.items[i].ncols < 2
    THEN "ValueError"
    ELSE IF Len(labels.items) # Len(dataframes.items)
    THEN "ValueError"
    ELSE None

\* QuickPlot.__init__(dataframes, labels): the default labels are built, with
\* len(dataframes), before the input is validated.  The table passed where a
\* list is expected has two rows.
QuickPlot_init(dataframes, labels) ==
    IF ~PyTruthy(labels) /\ ~HasLen(dataframes)
    THEN [raised |-> "TypeError", dataframes |-> dataframes, labels |-> PyNone]
    ELSE LET n == IF dataframes.type = "DataFrame" THEN 2 ELSE Len(dataframes.items)
             self_labels == IF PyTruthy(labels) THEN labels ELSE DefaultLabels(n)
         IN [raised |-> validate_input(dataframes, self_labels),
             dataframes |-> dataframes, labels |-> self_labels]

NewQuickPlot(dataframes, labels) ==
    LET r == QuickPlot_init(dataframes, labels) IN
    /\ daCall' = [op |-> "QuickPlot", dataframes |-> dataframes, labels_arg |-> labels,
                  raised |-> r.raised, labels |-> r.labels]
    /\ UNCHANGED <<frame, frame0, tables, authVars, sdkVars>>

PlotInit == AuthIdle /\ SdkIdle /\ DataIdle

PlotNext ==
    \E dataframes \in PlotDataframes, labels \in PlotLabels : NewQuickPlot(dataframes, labels)

SpecPlot == PlotInit /\ [][PlotNext]_vars

(***************************************************************************)
(* C14.  QuickPlot(dataframes, labels) raises ValueError when dataframes   *)
(* is not a list of DataFrames, or some table has fewer than two columns,  *)
(* or the number of labels given differs from the number of tables; for    *)
(* every other input it succeeds, and with labels omitted the labels are   *)
(* Series 1 .. Series n.                                                   *)
(***************************************************************************)
C14_ValueErrorOrConstructed ==
    daCall.op = "QuickPlot" =>
        LET dfs == daCall.dataframes
            given == daCall.labels_arg
            invalid ==
                \/ dfs.type # "list"
                \/ \E i \in DOMAIN dfs.items :
                        dfs.items[i].type # "DataFrame" \/ dfs.items[i].ncols < 2
                \/ given.type # "NoneType" /\ Len(given.items) # Len(dfs.items)
        IN IF invalid THEN daCall.raised = "ValueError"
           ELSE /\ daCall.raised = None
                /\ given.type = "NoneType" =>
                        /\ Len(daCall.labels.items) = Len(dfs.items)
                        /\ \A i \in DOMAIN dfs.items :
                                daCall.labels.items[i] =
                                    PyStr(<<"Series 1", "Series 2", "Series 3">>[i])

(***************************************************************************)
(* analytics/data_analytics.py: full_join_multi_tables.                    *)
(***************************************************************************)
MaxJoinRows == 2

\* the keys of the tables to join
JoinKeys == {1, 2, 3}

\* table t of a list: the key column date_time in any order (a key may
\* repeat), the value column value<t> with a value that tells its table and
\* row, the first one missing or not; at least one row
JoinTable(t, keys, nan_first) ==
    LET n == Len(keys)
        name == "value" \o Decimal(t)
    IN MakeFrame(n, <<"date_time", name>>,
                 [c \in {"date_time", name} |->
                    IF c = "date_time" THEN [i \in 1..n |-> Num(keys[i])]
                    ELSE [i \in 1..n |-> IF nan_first /\ i = 1 THEN NaN ELSE Num(10 * t + i)]])

JoinTables(t) ==
    {JoinTable(t, keys, nan_first) :
        keys \in SeqsUpTo(JoinKeys, MaxJoinRows) \ {<<>>}, nan_first \in BOOLEAN}

\* the lists a caller passes: one table, or two
JoinInputs ==
    {<<a>> : a \in JoinTables(1)}
        \cup {<<a, b>> : a \in JoinTables(1), b \in JoinTables(2)}

\* the rows of df whose cell in column `on` is the number k, ascending
RowsWithKey(df, on, k) ==
    SortedSeq({i \in DOMAIN df.col[on] : df.col[on][i] = Num(k)})

\* the concatenation of the sequences F(ks[i]), i = from .. Len(ks)
RECURSIVE PairsFrom(_, _, _, _, _)
PairsFrom(left, right, on, ks, from) ==
    IF from > Len(ks) THEN <<>>
    ELSE LET l == RowsWithKey(left, on, ks[from])
             r == RowsWithKey(right, on, ks[from])
             here == IF r = <<>> THEN [i \in DOMAIN l |-> <<l[i], 0>>]
                     ELSE IF l = <<>> THEN [j \in DOMAIN r |-> <<0, r[j]>>]
                     ELSE [x \in 1..(Len(l) * Len(r)) |->
                              <<l[((x - 1) \div Len(r)) + 1], r[((x - 1) % Len(r)) + 1]>>]
         IN here \o PairsFrom(left, right, on, ks, from + 1)

\* the keys of a table
KeysOf(df, on) == {df.col[on][i].v : i \in DOMAIN df.col[on]}

\* the table made of the pairs <<row of left or 0, row of right or 0>>
MergedRows(left, right, on, pairs) ==
    LET others == SelectIdx(right.columns, LAMBDA i : right.columns[i] # on, 1)
        cell(c, pr) ==
            IF c = on THEN (IF pr[1] # 0 THEN left.col[on][pr[1]] ELSE right.col[on][pr[2]])
            ELSE IF c \in SeqToSet(left.columns)
            THEN (IF pr[1] # 0 THEN left.col[c][pr[1]] ELSE NaN)
            ELSE (IF pr[2] # 0 THEN right.col[c][pr[2]] ELSE NaN)
    IN MakeFrame(Len(pairs), left.columns \o others,
                 [c \in SeqToSet(left.columns) \cup SeqToSet(others) |->
                    [r \in DOMAIN pairs |-> cell(c, pairs[r])]])

\* left.merge(right, on=on, how='inner'): the keys both tables have
merge_inner(left, right, on) ==
    MergedRows(left, right, on,
               PairsFrom(left, right, on,
                         SortedSeq(KeysOf(left, on) \cap KeysOf(right, on)), 1))

\* left.merge(right, on=on, how='outer'): the keys of either table in
\* ascending order, each row of left with that key paired with each row of
\* right with it, and with missing cells where the other table has none.
\* (The tables joined have differently named value columns.)
merge_outer(left, right, on) ==
    MergedRows(left, right, on,
               PairsFrom(left, right, on,
                         SortedSeq(KeysOf(left, on) \cup KeysOf(right, on)), 1))

\* df.sort_values(by=by): the rows in ascending order of the numbers in
\* column `by`, rows with equal keys in their order in df (what numpy's
\* sort gives on tables this short)
sort_values(df, by) ==
    LET n == Len(df.index)
        key(i) == df.col[by][i].v
        Before(j, i) == key(j) < key(i) \/ (key(j) = key(i) /\ j < i)
        perm == [r \in 1..n |->
                    CHOOSE i \in 1..n : Cardinality({j \in 1..n : Before(j, i)}) = r - 1]
    IN TakeRows(df, perm)

\* df.ffill(): every column filled forward
ffill_frame(df) == [df EXCEPT !.col = [c \in DOMAIN df.col |-> ffill(df.col[c])]]

\* the loop `for df in dfs[1:]: result = result.merge(df, on=on_col, how='outer')`
RECURSIVE MergeAll(_, _, _, _)
MergeAll(result, dfs, on_col, i) ==
    IF i > Len(dfs) THEN result
    ELSE MergeAll(merge_outer(result, dfs[i], on_col), dfs, on_col, i + 1)

\* DataAnalytics.full_join_multi_tables(dfs)
full_join_multi_tables(dfs) ==
    IF dfs = <<>> THEN Outcome(dfs, "IndexError", None)
    ELSE LET on_col == dfs[1].columns[1]
             merged == MergeAll(dfs[1], dfs, on_col, 2)
         IN Outcome(dfs, None, ffill_frame(sort_values(merged, on_col)))

FullJoinMultiTables ==
    /\ daCall.op = "none"
    /\ LET r == full_join_multi_tables(tables) IN
        /\ tables' = r.df
        /\ daCall' = [op |-> "full_join_multi_tables", raised |-> r.raised, result |-> r.result]
    /\ UNCHANGED <<frame, frame0, authVars, sdkVars>>

\* a caller holding a list of tables
JoinInit ==
    /\ tables \in JoinInputs
    /\ frame = [iname |-> None, index |-> <<>>, columns |-> <<>>, col |-> <<>>]
    /\ frame0 = frame
    /\ daCall = [op |-> "none"]
    /\ AuthIdle
    /\ SdkIdle

JoinNext == FullJoinMultiTables

SpecJoin == JoinInit /\ [][JoinNext]_vars

\* no key occurs twice in any of the tables
UniqueKeys ==
    \A t \in DOMAIN tables :
        \A i, j \in DOMAIN tables[t].index :
            tables[t].col["date_time"][i] = tables[t].col["date_time"][j] => i = j

\* the cell table t holds for key k in its value column, NaN when it has no
\* row for k (for tables with unique keys)
OwnCell(t, k) ==
    LET rows == {i \in DOMAIN tables[t].index : tables[t].col["date_time"][i] = k} IN
    IF rows = {} THEN NaN
    ELSE tables[t].col[tables[t].columns[2]][CHOOSE i \in rows : TRUE]

(***************************************************************************)
(* C15.  full_join_multi_tables(dfs) is a full join on the first column    *)
(* of the first table: the keys of the result are the keys that occur in   *)
(* some input table; the rows are in ascending order of key; and (for      *)
(* tables without repeated keys, where each key has one row) a cell is     *)
(* the table's own value for the key, or, that missing, the cell of the    *)
(* row before, which is empty only if no row before it has a value.        *)
(***************************************************************************)
C15_FullJoinSortedAndFilled ==
    daCall.op = "full_join_multi_tables" =>
        /\ daCall.raised = None
        /\ LET res == daCall.result
               n == Len(res.index)
               key == res.col["date_time"]
           IN /\ {key[r] : r \in 1..n} =
                    UNION {SeqToSet(tables[t].col["date_time"]) : t \in DOMAIN tables}
              /\ \A r \in 1..(n - 1) : key[r].v <= key[r + 1].v
              /\ UniqueKeys =>
                    /\ \A r \in 1..(n - 1) : key[r].v < key[r + 1].v
                    /\ \A t \in DOMAIN tables, r \in 1..n :
                        LET c == tables[t].columns[2] IN
                        res.col[c][r] =
                            IF ~IsNull(OwnCell(t, key[r])) THEN OwnCell(t, key[r])
                            ELSE IF r = 1 THEN NaN
                            ELSE res.col[c][r - 1]

\* key 3 occurs in the second table only, and its row got value1 from the
\* row of key 2
C15_Witness ==
    /\ daCall.op = "full_join_multi_tables"
    /\ Len(tables) = 2
    /\ tables[1].col["date_time"] = <<Num(2), Num(1)>>
    /\ tables[2].col["date_time"] = <<Num(3)>>
    /\ daCall.result.col["date_time"] = <<Num(1), Num(2), Num(3)>>
    /\ daCall.result.col["value1"] = <<Num(12), Num(11), Num(11)>>
    /\ daCall.result.col["value2"] = <<NaN, NaN, Num(21)>>

(***************************************************************************)
(* broker/ib.py: get_historical_daily_bar and get_latest_price.  A date    *)
(* is <<year, month, day>>; the texts '%Y-%m-%d' are built and parsed as   *)
(* sequences of one-character strings, and                                 *)
(* date differences are taken through the proleptic Gregorian ordinal.     *)
(***************************************************************************)
MaxYears == 3

IsLeap(y) == (y % 4 = 0 /\ y % 100 # 0) \/ y % 400 = 0

DaysInMonth(y, m) ==
    IF m = 2 THEN (IF IsLeap(y) THEN 29 ELSE 28)
    ELSE IF m \in {4, 6, 9, 11} THEN 30 ELSE 31

\* the days of the year y before month m
RECURSIVE DaysBeforeMonth(_, _)
DaysBeforeMonth(y, m) ==
    IF m = 1 THEN 0 ELSE DaysBeforeMonth(y, m - 1) + DaysInMonth(y, m - 1)

\* date.toordinal(): day 1 is 0001-01-01
toordinal(dt) ==
    LET y == dt[1] - 1 IN
    365 * y + (y \div 4) - (y \div 100) + (y \div 400) + DaysBeforeMonth(dt[1], dt[2]) + dt[3]

\* the years the model spans
CalendarYears == 2018..2025

\* date.fromordinal(n)
fromordinal(n) ==
    LET y == CHOOSE yy \in CalendarYears :
                toordinal(<<yy, 1, 1>>) <= n /\ n < toordinal(<<yy + 1, 1, 1>>)
        m == CHOOSE mm \in 1..12 :
                /\ toordinal(<<y, mm, 1>>) <= n
                /\ n < toordinal(<<y, mm, 1>>) + DaysInMonth(y, mm)
    IN <<y, m, n - toordinal(<<y, m, 1>>) + 1>>

\* the decimal digits of n >= 0, as a text of one-character strings
RECURSIVE DecimalChars(_)
DecimalChars(n) ==
    IF n < 10 THEN <<DigitChars[n + 1]>>
    ELSE Append(DecimalChars(n \div 10), DigitChars[(n % 10) + 1])

\* dt.strftime('%Y-%m-%d'), a text of one-character strings
strftime(dt) ==
    LET two(n) == IF n < 10 THEN <<"0">> \o DecimalChars(n) ELSE DecimalChars(n) IN
    DecimalChars(dt[1]) \o <<"-">> \o two(dt[2]) \o <<"-">> \o two(dt[3])

IsDigits(chars) ==
    chars # <<>> /\ \A i \in DOMAIN chars : \E v \in DOMAIN DigitChars : DigitChars[v] = chars[i]

\* int(chars) for a text of digits
RECURSIVE ParseInt(_)
ParseInt(chars) ==
    IF chars = <<>> THEN 0
    ELSE 10 * ParseInt(SubSeq(chars, 1, Len(chars) - 1))
            + (CHOOSE v \in DOMAIN DigitChars : DigitChars[v] = chars[Len(chars)]) - 1

\* datetime.strptime(text, "%Y-%m-%d").date(): four digits, then one or two
\* digits for the month and for the day, separated by '-'; ValueError
\* (modelled as no date, <<>>) for any other text and for a day that does
\* not exist
strptime(text) ==
    LET dashes == {i \in DOMAIN text : text[i] = "-"}
        d1 == CHOOSE i \in dashes : \A j \in dashes : i <= j
        d2 == CHOOSE i \in dashes : \A j \in dashes : j <= i
        yy == SubSeq(text, 1, d1 - 1)
        mm == SubSeq(text, d1 + 1, d2 - 1)
        dd == SubSeq(text, d2 + 1, Len(text))
    IN IF Cardinality(dashes) # 2 THEN <<>>
       ELSE IF ~(IsDigits(yy) /\ IsDigits(mm) /\ IsDigits(dd)) THEN <<>>
       ELSE IF Len(yy) # 4 \/ Len(mm) > 2 \/ Len(dd) > 2 THEN <<>>
       ELSE IF ParseInt(mm) \notin 1..12 \/ ParseInt(yy) < 1 THEN <<>>
       ELSE IF ParseInt(dd) \notin 1..DaysInMonth(ParseInt(yy), ParseInt(mm)) THEN <<>>
       ELSE <<ParseInt(yy), ParseInt(mm), ParseInt(dd)>>

\* f"{n}" for any integer
FormatInt(n) == IF n < 0 THEN "-" \o Decimal(-n) ELSE Decimal(n)

\* days_difference // 365
Years_rounded_down(days_difference) == days_difference \div 365

\* (days_difference + 364) // 365
Years(days_difference) == (days_difference + 364) \div 365

\* the duration get_historical_daily_bar asks for
DurationStr(days_difference) ==
    IF days_difference > 365
    THEN FormatInt(Years(days_difference)) \o " Y"
    ELSE FormatInt(days_difference) \o " D"

\* n daily bars around price p, the last one dated day `last`
BarsEnding(last, n, p) ==
    [i \in 1..n |-> [Bars(n, p)[i] EXCEPT !.date = Date(last - n + i)]]

\* what reqHistoricalData does on a request ending at day `last`
DailyResponses(last) ==
    {[raises |-> e, bars |-> <<>>] : e \in IbErrors}
        \cup {[raises |-> None, bars |-> BarsEnding(last, n, p)] :
                n \in 0..MaxBars, p \in 1..MaxPrice}

\* df.loc[start_date:end_date] on the table get_historical_data returned.
\* On the empty pd.DataFrame() the index is a RangeIndex in pandas 2, where
\* slicing it by dates raises TypeError, and an empty object index in
\* pandas 1, where the slice is empty; setup.py pins no version.
LocDates(df, start_date, end_date, pandas2) ==
    IF df = EmptyDataFrame
    THEN (IF pandas2 THEN Exc("TypeError") ELSE df)
    ELSE TakeRows(df, KeptRows(Len(df.index),
                LAMBDA i : /\ toordinal(start_date) <= df.index[i].v
                           /\ df.index[i].v <= toordinal(end_date)))

\* IB.get_historical_daily_bar(symbol, start_date, end_date):
\* [request, raised, result], request being the arguments passed to
\* reqHistoricalData (<<>> when none was made)
get_historical_daily_bar(symbol, start_text, end_text, resp, pandas2) ==
    LET start_date == strptime(start_text)
        end_date == strptime(end_text)
    IN IF start_date = <<>> \/ end_date = <<>>
       THEN [requests |-> <<>>, raised |-> "ValueError", result |-> NoneObject]
       ELSE LET days_difference == toordinal(end_date) - toordinal(start_date)
                duration_str == DurationStr(days_difference)
                request == [contract |-> symbol, endDateTime |-> end_date,
                            durationStr |-> duration_str, barSizeSetting |-> "1 day"]
                df == get_historical_data(resp).result
                sliced == LocDates(df, start_date, end_date, pandas2)
            IN IF IsExc(sliced)
               THEN [requests |-> <<request>>, raised |-> sliced.exc, result |-> NoneObject]
               ELSE [requests |-> <<request>>, raised |-> None, result |-> sliced]

\* the day differences asked for: around a week, a year, and each further year
DayDiffs ==
    {0, 1, 7, 364, 365, 366}
        \cup UNION {{365 * k - 1, 365 * k, 365 * k + 1} : k \in 2..MaxYears}

EndDates == {<<2024, 3, 1>>, <<2025, 1, 1>>}

\* the calls of the IB object share no state; a behaviour makes one
GetHistoricalDailyBar(end_date, d, resp, pandas2) ==
    /\ ibCall.op = "none"
    /\ LET start_text == strftime(fromordinal(toordinal(end_date) - d))
        end_text == strftime(end_date)
           r == get_historical_daily_bar("SPY", start_text, end_text, resp, pandas2)
       IN ibCall' = [op |-> "get_historical_daily_bar", start_date |-> start_text,
                     end_date |-> end_text, resp |-> resp, requests |-> r.requests,
                     raised |-> r.raised, result |-> r.result]
    /\ UNCHANGED <<authVars, redshift, rsCall, disk, clock, saverCall, dataVars>>

\* what ticker.last holds after reqMktData and the sleep: a price, or NaN
\* when no trade has been reported
TickerLasts == {NaN} \cup {Num(p) : p \in 1..MaxPrice}

\* IB.get_latest_price(symbol) on day today.  timedelta_bound tells whether
\* the name timedelta is bound in ib.py: the module imports only datetime
\* from datetime, so it is bound only if `from ib_insync import *` brings it.
get_latest_price(symbol, last, today, resp, pandas2, timedelta_bound) ==
    IF ~IsNull(last)
    THEN [trace |-> <<"reqMktData", "sleep">>, requests |-> <<>>, raised |-> None,
          result |-> last]
    ELSE IF ~timedelta_bound
    THEN [trace |-> <<"reqMktData", "sleep">>, requests |-> <<>>, raised |-> "NameError",
          result |-> NaN]
    ELSE LET today_text == strftime(today)
             seven_days_ago == strftime(fromordinal(toordinal(today) - 7))
             historical_bars == get_historical_daily_bar(symbol, seven_days_ago, today_text,
                                                         resp, pandas2)
             trace == <<"reqMktData", "sleep", "reqHistoricalData">>
         IN IF historical_bars.raised # None
            THEN [trace |-> trace, requests |-> historical_bars.requests,
                  raised |-> historical_bars.raised, result |-> NaN]
            ELSE IF "Close" \notin SeqToSet(historical_bars.result.columns)
            THEN [trace |-> trace, requests |-> historical_bars.requests,
                  raised |-> "AttributeError", result |-> NaN]
            ELSE IF historical_bars.result.index = <<>>
            THEN [trace |-> trace, requests |-> historical_bars.requests,
                  raised |-> "IndexError", result |-> NaN]
            ELSE [trace |-> trace, requests |-> historical_bars.requests, raised |-> None,
                  result |-> historical_bars.result.col["Close"][
                                    Len(historical_bars.result.index)]]

GetLatestPrice(last, today, resp, pandas2, timedelta_bound) ==
    /\ ibCall.op = "none"
    /\ ibCall' = [op |-> "get_latest_price", last |-> last, today |-> today, resp |-> resp]
                    @@ get_latest_price("SPY", last, today, resp, pandas2, timedelta_bound)
    /\ UNCHANGED <<authVars, redshift, rsCall, disk, clock, saverCall, dataVars>>

BrokerInit == AuthIdle /\ SdkIdle /\ DataIdle

BrokerNext ==
    \/ \E end_date \in EndDates, d \in DayDiffs, pandas2 \in BOOLEAN :
            \E resp \in DailyResponses(toordinal(end_date)) :
                GetHistoricalDailyBar(end_date, d, resp, pandas2)
    \/ \E last \in TickerLasts, today \in EndDates, pandas2 \in BOOLEAN,
            timedelta_bound \in BOOLEAN :
            \E resp \in DailyResponses(toordinal(today)) :
                GetLatestPrice(last, today, resp, pandas2, timedelta_bound)

SpecBroker == BrokerInit /\ [][BrokerNext]_vars

(***************************************************************************)
(* C16.  get_historical_daily_bar(symbol, start_date, end_date), with      *)
(* d = end_date - start_date in days and d >= 0, makes one request, ending *)
(* at end_date, for 'N Y' with N the smallest integer with 365 * N >= d    *)
(* when d > 365, and for 'd D' when d <= 365.                              *)
(***************************************************************************)
C16_DurationCoversRange ==
    ibCall.op = "get_historical_daily_bar" =>
        LET start_date == strptime(ibCall.start_date)
            end_date == strptime(ibCall.end_date)
            d == toordinal(end_date) - toordinal(start_date)
        IN d >= 0 =>
            /\ Len(ibCall.requests) = 1
            /\ ibCall.requests[1].endDateTime = end_date
            /\ IF d > 365
               THEN \E N \in 1..d :
                        /\ 365 * N >= d
                        /\ 365 * (N - 1) < d
                        /\ ibCall.requests[1].durationStr = Decimal(N) \o " Y"
               ELSE ibCall.requests[1].durationStr = Decimal(d) \o " D"

\* 366 days, from 2024-01-01 to 2025-01-01, were asked for as 2 years
C16_Witness ==
    /\ ibCall.op = "get_historical_daily_bar"
    /\ ibCall.start_date = <<"2", "0", "2", "4", "-", "0", "1", "-", "0", "1">>
    /\ ibCall.end_date = <<"2", "0", "2", "5", "-", "0", "1", "-", "0", "1">>
    /\ ibCall.requests[1].durationStr = "2 Y"
    /\ ibCall.requests[1].endDateTime = <<2025, 1, 1>>

(***************************************************************************)
(* C17.  get_latest_price(symbol) returns the ticker's last price when it  *)
(* is a number, without a historical-data request; when the last price is *)
(* NaN it requests the daily bars of the 7 days up to today and, bars      *)
(* having come back, returns the Close of the most recent one.             *)
(***************************************************************************)
C17_LastPriceOrLatestClose ==
    ibCall.op = "get_latest_price" =>
        IF ~IsNull(ibCall.last)
        THEN /\ ibCall.raised = None
             /\ ibCall.result = ibCall.last
             /\ ibCall.requests = <<>>
        ELSE /\ Len(ibCall.requests) = 1
             /\ ibCall.requests[1].durationStr = "7 D"
             /\ ibCall.requests[1].endDateTime = ibCall.today
             /\ (ibCall.resp.raises = None /\ ibCall.resp.bars # <<>>) =>
                    /\ ibCall.raised = None
                    /\ ibCall.result = ibCall.resp.bars[Len(ibCall.resp.bars)].close

(***************************************************************************)
(* C18.  A write_query that returns normally has executed the statement,   *)
(* then committed, once, then closed the cursor, and only then, when       *)
(* use_connection_pooling is False, closed the connection; run_query and   *)
(* read_query never commit; every call that returns normally has closed    *)
(* the cursor it opened.                                                   *)
(***************************************************************************)
C18_WriteQueryStepOrder ==
    /\ (rsCall.op = "write_query" /\ rsCall.raised = None) =>
            /\ rsCall.trace =
                    <<"conn.cursor", "cursor.execute", "conn.commit", "cursor.close">>
                        \o (IF redshift.use_connection_pooling THEN <<>> ELSE <<"conn.close">>)
            /\ rsCall.committed
    /\ rsCall.op \in {"run_query", "read_query"} =>
            /\ Count(rsCall.trace, "conn.commit") = 0
            /\ ~rsCall.committed
    /\ (rsCall.op # "none" /\ rsCall.raised = None) =>
            /\ Count(rsCall.trace, "conn.cursor") = 1
            /\ Count(rsCall.trace, "cursor.close") = 1
            /\ \A i, j \in DOMAIN rsCall.trace :
                    (rsCall.trace[i] = "conn.cursor" /\ rsCall.trace[j] = "cursor.close") => i < j

\* a write_query on an object without pooling went through all five steps
C18_Witness ==
    /\ rsCall.op = "write_query"
    /\ rsCall.raised = None
    /\ ~redshift.use_connection_pooling
    /\ rsCall.trace = <<"conn.cursor", "cursor.execute", "conn.commit", "cursor.close",
                        "conn.close">>
    /\ redshift.closed

====
